---- MODULE Spec2Model ----
(***************************************************************************)
(* A model of bredlynbot.py: the paginated top-plays view                  *)
(* (TopPlaysPaginator) and the Discord-to-osu! link store                  *)
(* (UserLinkManager).                                                      *)
(***************************************************************************)
EXTENDS Integers, Sequences, FiniteSets, TLC

VARIABLES
    view,       \* the TopPlaysPaginator object (its attributes and button flags)
    message,    \* the Discord message the view is attached to
    finished,   \* the View's 300 s timeout has elapsed
    lastButton, \* the button whose callback ran last ("none" after construction)
    boundary,   \* "floor": only prev since the last first; "ceil": only next since the last last
    links,      \* UserLinkManager.links, the in-memory mapping
    file,       \* the content of user_links.json on disk
    lastSave,   \* how the most recent _save_links ended ("none": nothing saved yet)
    call,       \* the last UserLinkManager call and its outcome
    inflight,   \* edit_message payloads built by callbacks and not yet applied by Discord
    sessions,   \* message id -> the view and message of that !top reply
    pc,         \* the bot's position: "waiting" for a command or "handled" one
    cmd         \* the command handled last and what the handler did

vars == <<view, message, finished, lastButton, boundary, links, file, lastSave, call,
         inflight, sessions, pc, cmd>>

paginatorVars == <<view, message, finished, lastButton, boundary>>

linkVars == <<links, file, lastSave, call>>

extraVars == <<inflight, sessions, pc, cmd>>

-----------------------------------------------------------------------------
(* Bounds of the model.                                                    *)

MaxScores == 25

MaxPerPage == 10

MaxUsers == 2

MaxAsyncScores == 5

MaxAsyncPerPage == 2

MaxInFlight == 2

MaxSessions == 2

MaxSessionPages == 2

MaxAvailable == 6

-----------------------------------------------------------------------------
(* Python helpers.                                                         *)

Min(a, b) == IF a <= b THEN a ELSE b

Max(a, b) == IF a >= b THEN a ELSE b

\* seq[start:end]: a negative bound counts from the end, and both clamp to 0..len(seq).
PySlice(seq, start, end) ==
    LET norm(i) == IF i < 0 THEN Max(i + Len(seq), 0) ELSE Min(i, Len(seq))
        lo == norm(start)
        hi == norm(end)
    IN  IF lo >= hi THEN << >> ELSE [i \in 1..(hi - lo) |-> seq[lo + i]]

-----------------------------------------------------------------------------
(* OsuAPI, as far as the paginator sees it.                                *)

\* The four modes the help text lists.
Modes == {"osu", "taiko", "fruits", "mania"}

\* A best-scores answer of n scores: each score is its pp, best first.
BestScores(n) == [i \in 1..n |-> 10 * (n + 1 - i)]

\* A profile as get_user returns it.
Profile(name) == [username |-> name, id |-> 1]

-----------------------------------------------------------------------------
(* TopPlaysPaginator.                                                      *)

update_buttons_next_only_last_page(v) ==
    [v EXCEPT !.first_disabled = (v.current_page = 0),
              !.prev_disabled  = (v.current_page = 0),
              !.next_disabled  = (v.current_page > v.max_pages),
              !.last_disabled  = (v.current_page > v.max_pages)]

update_buttons(v) ==
    [v EXCEPT !.first_disabled = (v.current_page = 0),
              !.prev_disabled  = (v.current_page = 0),
              !.next_disabled  = (v.current_page >= v.max_pages),
              !.last_disabled  = (v.current_page >= v.max_pages)]

max_pages_rounding_up(n, per_page) == n \div per_page

\* (len(scores) - 1) // per_page
max_pages_of(n, per_page) == (n - 1) \div per_page

\* __init__: the attributes, then update_buttons(); a Button starts enabled.
TopPlaysPaginator(scores, user, mode, per_page) ==
    update_buttons(
        [scores         |-> scores,
         user           |-> user,
         mode           |-> mode,
         per_page       |-> per_page,
         current_page   |-> 0,
         max_pages      |-> max_pages_of(Len(scores), per_page),
         first_disabled |-> FALSE,
         prev_disabled  |-> FALSE,
         next_disabled  |-> FALSE,
         last_disabled  |-> FALSE])

get_embed_from_page_number(v) ==
    LET start_idx == (v.current_page + 1) * v.per_page
        end_idx   == Min(start_idx + v.per_page, Len(v.scores))
    IN  [title       |-> v.user.username,
         page_scores |-> PySlice(v.scores, start_idx, end_idx),
         first_rank  |-> start_idx + 1,
         page        |-> v.current_page + 1,
         pages       |-> v.max_pages + 1,
         mode        |-> v.mode]

get_embed_short_last_page(v) ==
    LET start_idx == v.current_page * v.per_page
        end_idx   == Min(start_idx + v.per_page, Len(v.scores) - 1)
    IN  [title       |-> v.user.username,
         page_scores |-> PySlice(v.scores, start_idx, end_idx),
         first_rank  |-> start_idx + 1,
         page        |-> v.current_page + 1,
         pages       |-> v.max_pages + 1,
         mode        |-> v.mode]

\* get_embed: the fields of the embed that depend on the view.
get_embed(v) ==
    LET start_idx == v.current_page * v.per_page
        end_idx   == Min(start_idx + v.per_page, Len(v.scores))
    IN  [title       |-> v.user.username,
         page_scores |-> PySlice(v.scores, start_idx, end_idx),
         first_rank  |-> start_idx + 1,
         page        |-> v.current_page + 1,
         pages       |-> v.max_pages + 1,
         mode        |-> v.mode]

\* The disabled flags of the four navigation buttons, as sent with view=self.
Controls(v) ==
    [first |-> v.first_disabled, prev |-> v.prev_disabled,
     next  |-> v.next_disabled,  last |-> v.last_disabled]

\* ctx.send(embed=view.get_embed(), view=view)
SentMessage(v) == [exists |-> TRUE, embed |-> get_embed(v), controls |-> Controls(v)]

\* interaction.response.edit_message(embed=self.get_embed(), view=self):
\* a message that was deleted cannot be edited.
edit_message(msg, v) ==
    IF msg.exists
    THEN [exists |-> TRUE, embed |-> get_embed(v), controls |-> Controls(v)]
    ELSE msg

first_page(v) == update_buttons([v EXCEPT !.current_page = 0])

prev_page_unclamped(v) == update_buttons([v EXCEPT !.current_page = v.current_page - 1])

prev_page(v) == update_buttons([v EXCEPT !.current_page = Max(0, v.current_page - 1)])

next_page_without_refresh(v) == [v EXCEPT !.current_page = Min(v.max_pages, v.current_page + 1)]

next_page(v) == update_buttons([v EXCEPT !.current_page = Min(v.max_pages, v.current_page + 1)])

last_page_moving_max(v) == update_buttons([v EXCEPT !.max_pages = v.current_page])

last_page(v) == update_buttons([v EXCEPT !.current_page = v.max_pages])

\* The link store before it is built (user_links = None).
NoLinks == << >>

NoStore == [state |-> "absent", doc |-> {}]

NoCall == [op |-> "none"]

\* No payload in flight, no session, the command loop not running.
NoInflight == << >>

NoSessions == << >>

NoCmd == [name |-> "none"]

Idle == inflight = NoInflight /\ sessions = NoSessions /\ pc = "off" /\ cmd = NoCmd

\* The state after top() has built the view and sent the message.
InitPaginator ==
    /\ \E n \in 1..MaxScores, per_page \in 1..MaxPerPage, mode \in Modes :
          /\ view = TopPlaysPaginator(BestScores(n), Profile("peppy"), mode, per_page)
          /\ message = SentMessage(view)
    /\ finished = FALSE
    /\ lastButton = "none"
    /\ boundary = "none"
    /\ links = NoLinks /\ file = NoStore /\ lastSave = "none" /\ call = NoCall
    /\ Idle

first_button ==
    /\ ~finished
    /\ view' = first_page(view)
    /\ message' = edit_message(message, view')
    /\ lastButton' = "first"
    /\ boundary' = "floor"
    /\ UNCHANGED <<finished, linkVars, extraVars>>

prev_button ==
    /\ ~finished
    /\ view' = prev_page(view)
    /\ message' = edit_message(message, view')
    /\ lastButton' = "prev"
    /\ boundary' = IF boundary = "floor" THEN "floor" ELSE "none"
    /\ UNCHANGED <<finished, linkVars, extraVars>>

next_button ==
    /\ ~finished
    /\ view' = next_page(view)
    /\ message' = edit_message(message, view')
    /\ lastButton' = "next"
    /\ boundary' = IF boundary = "ceil" THEN "ceil" ELSE "none"
    /\ UNCHANGED <<finished, linkVars, extraVars>>

last_button ==
    /\ ~finished
    /\ view' = last_page(view)
    /\ message' = edit_message(message, view')
    /\ lastButton' = "last"
    /\ boundary' = "ceil"
    /\ UNCHANGED <<finished, linkVars, extraVars>>

\* delete_button: interaction.message.delete() and nothing else.
delete_button ==
    /\ ~finished
    /\ message' = [message EXCEPT !.exists = FALSE]
    /\ lastButton' = "delete"
    /\ UNCHANGED <<view, finished, boundary, linkVars, extraVars>>

\* super().__init__(timeout=300): the view stops receiving interactions.
on_timeout ==
    /\ ~finished
    /\ finished' = TRUE
    /\ UNCHANGED <<view, message, lastButton, boundary, linkVars, extraVars>>

NextPaginator ==
    \/ first_button
    \/ prev_button
    \/ next_button
    \/ last_button
    \/ delete_button
    \/ on_timeout

-----------------------------------------------------------------------------
(* UserLinkManager.                                                        *)

\* Discord ids of the users that talk to the bot.
UserIds == 1..MaxUsers

Handles == {"peppy", "cookiezi"}

LinkModes == {"osu", "mania"}

\* Python's None.
None == [none |-> TRUE]

\* {}
EmptyDict == [k \in {} |-> None]

\* str(discord_id)
str(discord_id) == ToString(discord_id)

\* json.dump(self.links, f, indent=2): one member per key of the dict.
json_dump(d) ==
    {[key |-> k, osu_username |-> d[k].osu_username, mode |-> d[k].mode] : k \in DOMAIN d}

\* json.load(f): the object's members become the dict's items.
json_load(doc) ==
    [k \in {e.key : e \in doc} |->
        LET e == CHOOSE x \in doc : x.key = k
        IN  [osu_username |-> e.osu_username, mode |-> e.mode]]

\* What user_links.json can hold: nothing (no file), an unreadable file, a
\* truncated document, or a document a save wrote.
NoFile == [state |-> "absent", doc |-> {}]

Unreadable == [state |-> "unreadable", doc |-> {}]

Malformed == [state |-> "malformed", doc |-> {}]

Written(d) == [state |-> "json", doc |-> json_dump(d)]

load_links_uncaught(f) ==
    IF f.state = "absent"
    THEN [links |-> EmptyDict, reported |-> FALSE, raised |-> FALSE]
    ELSE IF f.state = "json"
    THEN [links |-> json_load(f.doc), reported |-> FALSE, raised |-> FALSE]
    ELSE [links |-> EmptyDict, reported |-> FALSE, raised |-> TRUE]

\* _load_links: the dict, whether an error was printed, whether it raised.
load_links(f) ==
    IF f.state = "absent"
    THEN [links |-> EmptyDict, reported |-> FALSE, raised |-> FALSE]
    ELSE IF f.state = "json"
    THEN [links |-> json_load(f.doc), reported |-> FALSE, raised |-> FALSE]
    ELSE [links |-> EmptyDict, reported |-> TRUE, raised |-> FALSE]

\* How a save can end: written, open() fails, or json.dump fails part-way.
SaveOutcomes == {"ok", "open_error", "write_error"}

save_links_uncaught(d, f, outcome) ==
    IF outcome = "ok"
    THEN [file |-> Written(d), reported |-> FALSE, raised |-> FALSE]
    ELSE IF outcome = "open_error"
    THEN [file |-> f, reported |-> FALSE, raised |-> TRUE]
    ELSE [file |-> Malformed, reported |-> FALSE, raised |-> TRUE]

save_links_appending(d, f, outcome) ==
    IF outcome = "ok"
    THEN [file |-> [state |-> "json", doc |-> f.doc \cup json_dump(d)],
          reported |-> FALSE, raised |-> FALSE]
    ELSE IF outcome = "open_error"
    THEN [file |-> f, reported |-> TRUE, raised |-> FALSE]
    ELSE [file |-> Malformed, reported |-> TRUE, raised |-> FALSE]

\* _save_links: the file afterwards, whether an error was printed, whether it raised.
save_links(d, f, outcome) ==
    IF outcome = "ok"
    THEN [file |-> Written(d), reported |-> FALSE, raised |-> FALSE]
    ELSE IF outcome = "open_error"
    THEN [file |-> f, reported |-> TRUE, raised |-> FALSE]
    ELSE [file |-> Malformed, reported |-> TRUE, raised |-> FALSE]

link_entry_replacing_all(d, discord_id, osu_username, mode) ==
    [k \in {str(discord_id)} |-> [osu_username |-> osu_username, mode |-> mode]]

\* self.links[str(discord_id)] = {"osu_username": ..., "mode": ...}
link_entry(d, discord_id, osu_username, mode) ==
    [k \in DOMAIN d \cup {str(discord_id)} |->
        IF k = str(discord_id)
        THEN [osu_username |-> osu_username, mode |-> mode]
        ELSE d[k]]

\* del self.links[discord_id_str]
del_entry(d, key) == [k \in DOMAIN d \ {key} |-> d[k]]

\* self.links.get(str(discord_id))
get_linked_user(d, discord_id) ==
    IF str(discord_id) \in DOMAIN d THEN d[str(discord_id)] ELSE None

Call(op, discord_id, osu_username, mode, returned, record, save, reported, raised) ==
    [op |-> op, discord_id |-> discord_id, osu_username |-> osu_username,
     mode |-> mode, returned |-> returned, record |-> record, save |-> save,
     reported |-> reported, raised |-> raised]

\* UserLinkManager(): the file is whatever an earlier run left behind.
InitLinks ==
    /\ file \in {NoFile, Unreadable, Malformed}
               \cup {Written(d) : d \in UNION {[S -> [osu_username : Handles, mode : LinkModes]] :
                                                  S \in SUBSET {str(u) : u \in UserIds}}}
    /\ links = load_links(file).links
    /\ lastSave = "none"
    /\ call = Call("init", 0, "", "", FALSE, None, "none",
                   load_links(file).reported, load_links(file).raised)
    /\ view = None /\ message = None /\ finished = FALSE
    /\ lastButton = "none" /\ boundary = "none"
    /\ Idle

\* The process is started again: UserLinkManager() loads the file anew.
restart ==
    /\ links' = load_links(file).links
    /\ call' = Call("init", 0, "", "", FALSE, None, "none",
                    load_links(file).reported, load_links(file).raised)
    /\ UNCHANGED <<file, lastSave, paginatorVars, extraVars>>

link_user(discord_id, osu_username, mode, outcome) ==
    LET saved == save_links(link_entry(links, discord_id, osu_username, mode), file, outcome)
    IN  /\ links' = link_entry(links, discord_id, osu_username, mode)
        /\ file' = saved.file
        /\ lastSave' = outcome
        /\ call' = Call("link", discord_id, osu_username, mode, FALSE, None, outcome,
                        saved.reported, saved.raised)
        /\ UNCHANGED <<paginatorVars, extraVars>>

unlink_user_returning_true(discord_id, outcome) ==
    IF str(discord_id) \in DOMAIN links
    THEN LET saved == save_links(del_entry(links, str(discord_id)), file, outcome)
         IN  /\ links' = del_entry(links, str(discord_id))
             /\ file' = saved.file
             /\ lastSave' = outcome
             /\ call' = Call("unlink", discord_id, "", "", TRUE, None, outcome,
                             saved.reported, saved.raised)
             /\ UNCHANGED <<paginatorVars, extraVars>>
    ELSE /\ call' = Call("unlink", discord_id, "", "", TRUE, None, "none", FALSE, FALSE)
         /\ UNCHANGED <<links, file, lastSave, paginatorVars, extraVars>>

unlink_user(discord_id, outcome) ==
    IF str(discord_id) \in DOMAIN links
    THEN LET saved == save_links(del_entry(links, str(discord_id)), file, outcome)
         IN  /\ links' = del_entry(links, str(discord_id))
             /\ file' = saved.file
             /\ lastSave' = outcome
             /\ call' = Call("unlink", discord_id, "", "", TRUE, None, outcome,
                             saved.reported, saved.raised)
             /\ UNCHANGED <<paginatorVars, extraVars>>
    ELSE /\ call' = Call("unlink", discord_id, "", "", FALSE, None, "none", FALSE, FALSE)
         /\ UNCHANGED <<links, file, lastSave, paginatorVars, extraVars>>

lookup(discord_id) ==
    /\ call' = Call("get", discord_id, "", "", FALSE, get_linked_user(links, discord_id),
                    "none", FALSE, FALSE)
    /\ UNCHANGED <<links, file, lastSave, paginatorVars, extraVars>>

NextLinks ==
    \/ \E u \in UserIds, h \in Handles, m \in LinkModes, o \in SaveOutcomes :
          link_user(u, h, m, o)
    \/ \E u \in UserIds, o \in SaveOutcomes : unlink_user(u, o)
    \/ \E u \in UserIds : lookup(u)
    \/ restart

-----------------------------------------------------------------------------
(* The two specifications: one view on one message, and the link store.    *)

SpecPaginator == InitPaginator /\ [][NextPaginator]_vars

SpecLinks == InitLinks /\ [][NextLinks]_vars

-----------------------------------------------------------------------------
(* Claims about the paginator, checked under SpecPaginator.                *)

\* C1: max_pages is ceil(N / per_page) - 1, the view is built on page 0, and
\* after any sequence of button callbacks current_page is in 0..max_pages.
C1_PageInRange ==
    LET n    == Len(view.scores)
        ceil == CHOOSE q \in 1..n : q * view.per_page >= n /\ (q - 1) * view.per_page < n
    IN  /\ n >= 1 /\ view.per_page >= 1
        /\ view.max_pages = ceil - 1
        /\ view.current_page \in 0..view.max_pages
        /\ lastButton = "none" => view.current_page = 0

\* C1 witness: a next callback has reached the last page of a view whose last
\* page is partly filled.
C1_Witness ==
    /\ lastButton = "next"
    /\ view.max_pages >= 2
    /\ view.current_page = view.max_pages
    /\ Len(view.scores) % view.per_page # 0

\* C2: first and prev are disabled iff current_page = 0, next and last iff
\* current_page = max_pages, in the view and in the controls the message
\* shows; with no more scores than one page holds all four are disabled.
C2_ControlsMatchPage ==
    /\ view.first_disabled <=> (view.current_page = 0)
    /\ view.prev_disabled  <=> (view.current_page = 0)
    /\ view.next_disabled  <=> (view.current_page = view.max_pages)
    /\ view.last_disabled  <=> (view.current_page = view.max_pages)
    /\ message.exists => message.controls = Controls(view)
    /\ Len(view.scores) <= view.per_page =>
          /\ view.first_disabled /\ view.prev_disabled
          /\ view.next_disabled /\ view.last_disabled

\* C2 witness: 25 scores, 10 per page, a next callback has ended on page 2
\* and the message shows next disabled and prev enabled.
C2_Witness ==
    /\ Len(view.scores) = 25 /\ view.per_page = 10
    /\ lastButton = "next"
    /\ view.current_page = 2
    /\ message.exists /\ message.controls.next /\ ~message.controls.prev

\* C3: the page get_embed renders holds exactly the scores at the indices
\* current_page*per_page .. min((current_page+1)*per_page, N) - 1, in order,
\* and so does the page the message shows after a navigation callback.
C3_PageSlice ==
    LET n     == Len(view.scores)
        first == view.current_page * view.per_page
        stop  == Min((view.current_page + 1) * view.per_page, n)
        slice == [i \in 1..(stop - first) |-> view.scores[first + i]]
    IN  /\ view.scores = BestScores(n)
        /\ get_embed(view).page_scores = slice
        /\ Len(slice) >= 1
        /\ message.exists => message.embed.page_scores = slice

\* C3 witness: a partly filled last page is on display after a last callback.
C3_Witness ==
    /\ lastButton = "last"
    /\ message.exists
    /\ view.current_page >= 1
    /\ Len(message.embed.page_scores) \in 1..(view.per_page - 1)

\* C4: after first, any number of prev callbacks leaves current_page = 0;
\* after last, any number of next callbacks leaves it at max_pages; prev on
\* page 0 and next on the last page change neither the view nor the message.
C4_BoundariesSaturate ==
    /\ [](boundary = "floor" => view.current_page = 0)
    /\ [](boundary = "ceil" => view.current_page = view.max_pages)
    /\ [][(prev_button /\ view.current_page = 0) => (view' = view /\ message' = message)]_vars
    /\ [][(next_button /\ view.current_page = view.max_pages)
            => (view' = view /\ message' = message)]_vars

\* C4 witness: a next callback ran on the last page of a view of several
\* pages, with only next callbacks since the last callback.
C4_Witness ==
    /\ boundary = "ceil"
    /\ lastButton = "next"
    /\ view.max_pages >= 1

\* C5: once delete_button has removed the message, no later navigation
\* callback runs on the view or changes its current_page.
C5_DismissIsTerminal ==
    [][~message.exists => view' = view]_vars

-----------------------------------------------------------------------------
(* Claims about the link store, checked under SpecLinks.                   *)

\* C6: link_user(u, h, m) is an upsert: afterwards get_linked_user(u) is
\* exactly (h, m), every other user's record is as before, and neither the
\* mapping nor the saved document ever holds two records for one user.
C6_LinkIsUpsert ==
    /\ [][call'.op = "link" =>
            /\ get_linked_user(links', call'.discord_id)
                 = [osu_username |-> call'.osu_username, mode |-> call'.mode]
            /\ \A u \in UserIds \ {call'.discord_id} :
                 get_linked_user(links', u) = get_linked_user(links, u)
            /\ DOMAIN links' = DOMAIN links \cup {str(call'.discord_id)}]_vars
    /\ [](/\ DOMAIN links \subseteq {str(u) : u \in UserIds}
          /\ \A e1, e2 \in file.doc : e1.key = e2.key => e1 = e2)

\* C6 witness: a link call has overwritten a user's earlier record while
\* another user holds a record.
C6_Witness ==
    /\ call.op = "link"
    /\ call.discord_id = 1
    /\ links["1"] = [osu_username |-> "cookiezi", mode |-> "mania"]
    /\ "2" \in DOMAIN links
    /\ \E e \in file.doc : e.key = "1" /\ e.osu_username = "peppy"

\* C7: unlink_user(u) returns True exactly when u had a record, and then u
\* has none; with no record it returns False without raising and leaves the
\* mapping and the file as they were.
C7_UnlinkReportsExistence ==
    [][call'.op = "unlink" =>
        /\ call'.returned = (str(call'.discord_id) \in DOMAIN links)
        /\ get_linked_user(links', call'.discord_id) = None
        /\ ~call'.raised
        /\ \A u \in UserIds \ {call'.discord_id} :
             get_linked_user(links', u) = get_linked_user(links, u)
        /\ str(call'.discord_id) \notin DOMAIN links => (links' = links /\ file' = file)]_vars

\* C7 witness: an unlink of a user without a record returned False while
\* another user's record stayed in the mapping and in the file.
C7_Witness ==
    /\ call.op = "unlink"
    /\ ~call.returned
    /\ DOMAIN links # {}
    /\ file.doc # {}

\* C8: when the save fails during link_user or unlink_user the failure is
\* printed and not raised, and the mapping holds the new state: the linked
\* record is found, the unlinked one is not.
C8_SaveFailureKeepsMemory ==
    [][(call'.op \in {"link", "unlink"} /\ call'.save \in {"open_error", "write_error"}) =>
        /\ call'.reported
        /\ ~call'.raised
        /\ call'.op = "link" =>
             get_linked_user(links', call'.discord_id)
               = [osu_username |-> call'.osu_username, mode |-> call'.mode]
        /\ call'.op = "unlink" =>
             (call'.returned /\ get_linked_user(links', call'.discord_id) = None)]_vars

\* C8 witness: a link whose save failed is in the mapping and not in the file.
C8_Witness ==
    /\ call.op = "link"
    /\ call.save = "open_error"
    /\ call.reported
    /\ str(call.discord_id) \in DOMAIN links
    /\ file.state = "json"
    /\ \A e \in file.doc : e.key # str(call.discord_id)

\* C9: after a save that succeeded the file holds the whole mapping and
\* nothing else, so loading it (a restart) gives the mapping back.
C9_FileEqualsMapping ==
    lastSave = "ok" =>
        /\ file.state = "json"
        /\ Cardinality(file.doc) = Cardinality(DOMAIN links)
        /\ \A k \in DOMAIN links :
              [key |-> k, osu_username |-> links[k].osu_username, mode |-> links[k].mode]
                 \in file.doc
        /\ load_links(file).links = links

\* C9 witness: the process was restarted after a successful save that
\* removed one of two records, and the mapping holds the other.
C9_Witness ==
    /\ lastSave = "ok"
    /\ call.op = "init"
    /\ Cardinality(DOMAIN links) = 1
    /\ Cardinality(file.doc) = 1

\* C10: when user_links.json is absent, unreadable or malformed at startup,
\* construction does not raise, the mapping is empty and every lookup
\* returns None.
C10_LoadFailureGivesEmptyStore ==
    (call.op = "init" /\ file.state # "json") =>
        /\ ~call.raised
        /\ links = EmptyDict
        /\ \A u \in UserIds : get_linked_user(links, u) = None

\* C10 witness: the store was built from a malformed file left by a failed
\* save, and the load error was printed.
C10_Witness ==
    /\ call.op = "init"
    /\ file.state = "malformed"
    /\ lastSave = "write_error"
    /\ call.reported
    /\ links = EmptyDict

-----------------------------------------------------------------------------
(* Further claims about the paginator, checked under SpecPaginator.        *)

\* C16: no callback changes the view's scores, per_page, max_pages, user or
\* mode: a step changes at most current_page and the four disabled flags.
C16_OnlyPageAndFlagsChange ==
    [][/\ view'.scores = view.scores
       /\ view'.per_page = view.per_page
       /\ view'.max_pages = view.max_pages
       /\ view'.user = view.user
       /\ view'.mode = view.mode
       /\ view' = [view EXCEPT !.current_page = view'.current_page,
                                !.first_disabled = view'.first_disabled,
                                !.prev_disabled = view'.prev_disabled,
                                !.next_disabled = view'.next_disabled,
                                !.last_disabled = view'.last_disabled]]_vars

\* C16 witness: a last callback has moved a taiko view to a later page and
\* the view still holds the scores it was built with.
C16_Witness ==
    /\ lastButton = "last"
    /\ view.mode = "taiko"
    /\ view.current_page >= 2
    /\ view.scores = BestScores(Len(view.scores))
    /\ view.max_pages = view.current_page

\* C19: the pages 0..max_pages partition the scores: every page holds
\* between 1 and per_page scores, page p starts where page p-1 stopped, the
\* pages hold the scores in order, and every index lies on exactly one page.
C19_PagesPartitionScores ==
    LET n       == Len(view.scores)
        page(p) == get_embed([view EXCEPT !.current_page = p])
        spans   == {LET e == page(p)
                    IN  <<p, e.first_rank, e.first_rank + Len(e.page_scores) - 1>> :
                       p \in 0..view.max_pages}
    IN  /\ page(0).first_rank = 1
        /\ \A p \in 0..view.max_pages :
              LET e == page(p)
              IN  /\ Len(e.page_scores) \in 1..view.per_page
                  /\ e.first_rank + Len(e.page_scores) - 1 <= n
                  /\ \A k \in 1..Len(e.page_scores) :
                        e.page_scores[k] = view.scores[e.first_rank + k - 1]
                  /\ p > 0 => LET d == page(p - 1)
                              IN  e.first_rank = d.first_rank + Len(d.page_scores)
        /\ \A i \in 1..n : Cardinality({t \in spans : i \in t[2]..t[3]}) = 1

\* C19 witness: a view of at least three pages with a partly filled last
\* page, shown on a middle page after a prev callback.
C19_Witness ==
    /\ lastButton = "prev"
    /\ view.max_pages >= 2
    /\ view.current_page \in 1..(view.max_pages - 1)
    /\ Len(view.scores) % view.per_page # 0

-----------------------------------------------------------------------------
(* Concurrent interactions on one view.  A callback runs without yielding  *)
(* up to its await: it sets current_page, refreshes the buttons and builds *)
(* the edit_message payload; Discord applies the payloads later, in any    *)
(* order.                                                                  *)

Buttons == {"first", "prev", "next", "last"}

\* The synchronous part of the callback of button b.
navigate(v, b) ==
    CASE b = "first" -> first_page(v)
      [] b = "prev"  -> prev_page(v)
      [] b = "next"  -> next_page(v)
      [] b = "last"  -> last_page(v)

\* The arguments of edit_message(embed=self.get_embed(), view=self), evaluated
\* when the call is made; produced is the page the callback has just set.
response(v, b) ==
    [button |-> b, embed |-> get_embed(v), controls |-> Controls(v),
     produced |-> v.current_page]

\* seq without its i-th element.
Remove(seq, i) == [k \in 1..(Len(seq) - 1) |-> IF k < i THEN seq[k] ELSE seq[k + 1]]

InitAsync ==
    /\ \E n \in 1..MaxAsyncScores, per_page \in 1..MaxAsyncPerPage :
          /\ view = TopPlaysPaginator(BestScores(n), Profile("peppy"), "osu", per_page)
          /\ message = SentMessage(view)
    /\ finished = FALSE
    /\ lastButton = "none"
    /\ boundary = "none"
    /\ links = NoLinks /\ file = NoStore /\ lastSave = "none" /\ call = NoCall
    /\ inflight = NoInflight /\ sessions = NoSessions /\ pc = "off" /\ cmd = NoCmd

\* A navigation callback up to its await.
callback_starts(b) ==
    /\ ~finished
    /\ Len(inflight) < MaxInFlight
    /\ view' = navigate(view, b)
    /\ inflight' = Append(inflight, response(view', b))
    /\ lastButton' = b
    /\ UNCHANGED <<message, finished, boundary, linkVars, sessions, pc, cmd>>

\* Discord applies one of the payloads in flight; a deleted message stays deleted.
edit_applied(i) ==
    /\ message' = IF message.exists
                  THEN [exists |-> TRUE, embed |-> inflight[i].embed,
                        controls |-> inflight[i].controls]
                  ELSE message
    /\ inflight' = Remove(inflight, i)
    /\ UNCHANGED <<view, finished, lastButton, boundary, linkVars, sessions, pc, cmd>>

delete_pressed ==
    /\ ~finished
    /\ message' = [message EXCEPT !.exists = FALSE]
    /\ lastButton' = "delete"
    /\ UNCHANGED <<view, finished, boundary, inflight, linkVars, sessions, pc, cmd>>

view_times_out ==
    /\ ~finished
    /\ finished' = TRUE
    /\ UNCHANGED <<view, message, lastButton, boundary, inflight, linkVars, sessions, pc, cmd>>

NextAsync ==
    \/ \E b \in Buttons : callback_starts(b)
    \/ \E i \in DOMAIN inflight : edit_applied(i)
    \/ delete_pressed
    \/ view_times_out

SpecAsync == InitAsync /\ [][NextAsync]_vars

\* C15: a callback's page update, button refresh and render are one step:
\* every payload sent shows the page the callback produced, that page's
\* slice of the scores, and the button flags that belong to that page,
\* whatever other callbacks ran before the payload is applied.
C15_PayloadMatchesProducedPage ==
    \A i \in DOMAIN inflight :
        LET p     == inflight[i]
            n     == Len(view.scores)
            first == p.produced * view.per_page
            stop  == Min(first + view.per_page, n)
        IN  /\ p.produced \in 0..view.max_pages
            /\ p.embed.page = p.produced + 1
            /\ p.embed.first_rank = first + 1
            /\ p.embed.page_scores = [k \in 1..(stop - first) |-> view.scores[first + k]]
            /\ p.controls.first = (p.produced = 0)
            /\ p.controls.prev  = (p.produced = 0)
            /\ p.controls.next  = (p.produced = view.max_pages)
            /\ p.controls.last  = (p.produced = view.max_pages)

\* C15 witness: two callbacks ran back to back before either edit was
\* applied; the first payload shows page 2 with next enabled while the view
\* has already moved on to its last page.
C15_Witness ==
    /\ Len(inflight) = 2
    /\ inflight[1].button = "next" /\ inflight[1].produced = 1
    /\ inflight[2].button = "next" /\ inflight[2].produced = 2
    /\ view.current_page = 2 /\ view.max_pages = 2
    /\ ~inflight[1].controls.next /\ inflight[2].controls.next
    /\ message.exists /\ message.embed.page = 1

-----------------------------------------------------------------------------
(* Several !top replies at once: each message carries its own view, and an *)
(* interaction is dispatched to the view of the message it was made on.    *)

MessageIds == 1..MaxSessions

\* TopPlaysPaginator(scores, user, mode, per_page=10)
PerPage == 10

\* The numbers of scores the views are built with: 1, 11, 21, ...
SessionSizes == {1 + PerPage * j : j \in 0..(MaxSessionPages - 1)}

route_sharing_current_page(ss, m, new) ==
    [k \in DOMAIN ss |->
        IF k = m THEN new
        ELSE [ss[k] EXCEPT !.view = update_buttons(
                 [ss[k].view EXCEPT !.current_page = new.view.current_page])]]

\* The callback runs on self, the view of message m; the attributes it
\* assigns are instance attributes.
route(ss, m, new) == [ss EXCEPT ![m] = new]

InitSessions ==
    /\ sessions \in [MessageIds ->
          {[view |-> TopPlaysPaginator(BestScores(n), Profile("peppy"), "osu", PerPage),
            message |-> SentMessage(TopPlaysPaginator(BestScores(n), Profile("peppy"), "osu", PerPage)),
            finished |-> FALSE] : n \in SessionSizes}]
    /\ view = None /\ message = None /\ finished = FALSE
    /\ lastButton = "none" /\ boundary = "none"
    /\ links = NoLinks /\ file = NoStore /\ lastSave = "none" /\ call = NoCall
    /\ inflight = NoInflight /\ pc = "off" /\ cmd = NoCmd

session_button(m, b) ==
    /\ ~sessions[m].finished
    /\ sessions' = route(sessions, m,
          [view     |-> navigate(sessions[m].view, b),
           message  |-> edit_message(sessions[m].message, navigate(sessions[m].view, b)),
           finished |-> FALSE])
    /\ UNCHANGED <<paginatorVars, linkVars, inflight, pc, cmd>>

session_delete(m) ==
    /\ ~sessions[m].finished
    /\ sessions' = route(sessions, m,
          [sessions[m] EXCEPT !.message = [sessions[m].message EXCEPT !.exists = FALSE]])
    /\ UNCHANGED <<paginatorVars, linkVars, inflight, pc, cmd>>

session_timeout(m) ==
    /\ ~sessions[m].finished
    /\ sessions' = route(sessions, m, [sessions[m] EXCEPT !.finished = TRUE])
    /\ UNCHANGED <<paginatorVars, linkVars, inflight, pc, cmd>>

NextSessions ==
    \/ \E m \in MessageIds, b \in Buttons : session_button(m, b)
    \/ \E m \in MessageIds : session_delete(m)
    \/ \E m \in MessageIds : session_timeout(m)

SpecSessions == InitSessions /\ [][NextSessions]_vars

\* C17: a navigation or delete interaction dispatched to the view of one
\* message leaves the view, the message and the scores of every other
\* message as they were.
C17_SessionsIndependent ==
    [][\A m \in MessageIds :
          ((\E b \in Buttons : session_button(m, b)) \/ session_delete(m))
             => \A o \in MessageIds \ {m} : sessions'[o] = sessions[o]]_vars

\* C17 witness: message 2 was paged forward and message 1 deleted, and
\* message 1's view of several pages is still on its first page.
C17_Witness ==
    /\ sessions # NoSessions
    /\ sessions[2].view.current_page >= 1
    /\ sessions[2].message.exists
    /\ ~sessions[1].message.exists
    /\ sessions[1].view.current_page = 0
    /\ sessions[1].view.max_pages >= 1

-----------------------------------------------------------------------------
(* The commands.  The bot waits for a command, handles it in one piece and *)
(* waits again; cmd keeps what was asked and what the handler did.  The    *)
(* osu! service may answer or fail any request; here every save of the     *)
(* link file succeeds (failing saves are the subject of SpecLinks).        *)

\* if limit > 5: limit = 5
RecentCap == 5

\* if limit > 100: limit = 100
TopCap == 100

\* recent(ctx, username=None, mode=None, limit=1)
RecentDefault == 1

\* top(ctx, username=None, mode=None, limit=100)
TopDefault == 100

\* An argument the user left out (the parameter keeps its default None).
Omitted == "<omitted>"

\* Handles as users type them, and the username the profile carries.
TypedHandles == {"peppy", "Cookiezi"}

Canonical(handle) == IF handle = "Cookiezi" THEN "cookiezi" ELSE handle

\* Modes as users type them: one of the four, and one that is none of them.
TypedModes == {"mania", "bogus"}

Limits == {1, RecentCap, RecentCap + 1, 50, TopCap, TopCap + 1}

\* Arguments are positional: a mode needs a username before it, a limit needs both.
Arguments(default) ==
    {[username |-> Omitted, mode |-> Omitted, limit |-> default]}
    \cup {[username |-> h, mode |-> Omitted, limit |-> default] : h \in TypedHandles}
    \cup {[username |-> h, mode |-> m, limit |-> l] :
             h \in TypedHandles, m \in TypedModes, l \in Limits \cup {default}}

\* get_user: the profile, or None when the request failed.
get_user(handle, mode, found) == IF found THEN Profile(Canonical(handle)) ELSE None

\* get_recent_scores / get_user_best: at most limit of the user's available
\* scores, or [] when the request failed (_make_request(...) or []).
get_scores(available, limit, answered) ==
    IF answered THEN PySlice(BestScores(available), 0, limit) ELSE << >>

resolve_with_default_mode(username, mode, linked) ==
    IF username = Omitted
    THEN IF linked # None
         THEN [ok |-> TRUE, username |-> linked.osu_username, mode |-> "osu"]
         ELSE [ok |-> FALSE, username |-> Omitted, mode |-> Omitted]
    ELSE [ok |-> TRUE, username |-> username, mode |-> IF mode = Omitted THEN "osu" ELSE mode]

\* The head of profile, recent and top: the linked account when no username
\* is given (mode = mode or linked['mode']), and mode "osu" when none is set.
resolve(username, mode, linked) ==
    IF username = Omitted
    THEN IF linked # None
         THEN [ok |-> TRUE, username |-> linked.osu_username,
               mode |-> IF mode = Omitted THEN linked.mode ELSE mode]
         ELSE [ok |-> FALSE, username |-> Omitted, mode |-> Omitted]
    ELSE [ok |-> TRUE, username |-> username, mode |-> IF mode = Omitted THEN "osu" ELSE mode]

clamp_missing(limit, cap) == limit

\* if limit > cap: limit = cap
clamp(limit, cap) == IF limit > cap THEN cap ELSE limit

no_scores_unchecked(scores) == FALSE

\* if not scores
no_scores(scores) == scores = << >>

Command(name, author, args, found, answered, available, users, fetches, replies, cards, created) ==
    [name |-> name, author |-> author, username |-> args.username, mode |-> args.mode,
     limit |-> args.limit, found |-> found, answered |-> answered, available |-> available,
     users |-> users, fetches |-> fetches, replies |-> replies, cards |-> cards,
     view |-> created]

\* profile(ctx, username, mode)
profile_command(author, args, found) ==
    LET r == resolve(args.username, args.mode, get_linked_user(links, author))
    IN  IF ~r.ok
        THEN Command("profile", author, args, found, FALSE, 0, << >>, << >>, <<"prompt">>, 0, None)
        ELSE Command("profile", author, args, found, FALSE, 0, << <<r.username, r.mode>> >>, << >>,
                     <<"fetching", IF get_user(r.username, r.mode, found) = None
                                   THEN "not_found" ELSE "profile">>, 0, None)

\* recent(ctx, username, mode, limit)
recent_command(author, args, found, answered, available) ==
    LET r      == resolve(args.username, args.mode, get_linked_user(links, author))
        limit  == clamp(args.limit, RecentCap)
        scores == get_scores(available, limit, answered)
        fetch  == [kind |-> "recent", mode |-> r.mode, limit |-> limit]
    IN  IF ~r.ok
        THEN Command("recent", author, args, found, answered, available,
                     << >>, << >>, <<"prompt">>, 0, None)
        ELSE IF get_user(r.username, r.mode, found) = None
        THEN Command("recent", author, args, found, answered, available,
                     << <<r.username, r.mode>> >>, << >>, <<"fetching", "not_found">>, 0, None)
        ELSE IF no_scores(scores)
        THEN Command("recent", author, args, found, answered, available,
                     << <<r.username, r.mode>> >>, <<fetch>>, <<"fetching", "no_scores">>, 0, None)
        ELSE Command("recent", author, args, found, answered, available,
                     << <<r.username, r.mode>> >>, <<fetch>>,
                     <<"fetching">> \o [i \in 1..Len(scores) |-> "card"], Len(scores), None)

\* top(ctx, username, mode, limit)
top_command(author, args, found, answered, available) ==
    LET r      == resolve(args.username, args.mode, get_linked_user(links, author))
        limit  == clamp(args.limit, TopCap)
        user   == get_user(r.username, r.mode, found)
        scores == get_scores(available, limit, answered)
        fetch  == [kind |-> "best", mode |-> r.mode, limit |-> limit]
    IN  IF ~r.ok
        THEN Command("top", author, args, found, answered, available,
                     << >>, << >>, <<"prompt">>, 0, None)
        ELSE IF user = None
        THEN Command("top", author, args, found, answered, available,
                     << <<r.username, r.mode>> >>, << >>, <<"fetching", "not_found">>, 0, None)
        ELSE IF no_scores(scores)
        THEN Command("top", author, args, found, answered, available,
                     << <<r.username, r.mode>> >>, <<fetch>>, <<"fetching", "no_scores">>, 0, None)
        ELSE Command("top", author, args, found, answered, available,
                     << <<r.username, r.mode>> >>, <<fetch>>, <<"fetching", "paginator">>, 0,
                     TopPlaysPaginator(scores, user, r.mode, PerPage))

link_before_lookup(d, author, user, typed, mode) == link_entry(d, author, typed, mode)

\* link_account: the mapping afterwards; nothing is linked when get_user gave None.
link_account_links(d, author, user, typed, mode) ==
    IF user = None THEN d ELSE link_entry(d, author, user.username, mode)

InitBot ==
    /\ links = EmptyDict /\ file = NoFile /\ lastSave = "none" /\ call = NoCall
    /\ pc = "waiting" /\ cmd = NoCmd
    /\ view = None /\ message = None /\ finished = FALSE
    /\ lastButton = "none" /\ boundary = "none"
    /\ inflight = NoInflight /\ sessions = NoSessions

\* link_account(ctx, osu_username, mode="osu")
link_account(author, osu_username, typed_mode, found) ==
    LET mode  == IF typed_mode = Omitted THEN "osu" ELSE typed_mode
        user  == get_user(osu_username, mode, found)
        after == link_account_links(links, author, user, osu_username, mode)
        args  == [username |-> osu_username, mode |-> typed_mode, limit |-> 0]
    IN  /\ pc = "waiting"
        /\ pc' = "handled"
        /\ links' = after
        /\ file' = IF after = links /\ user = None THEN file ELSE save_links(after, file, "ok").file
        /\ lastSave' = IF after = links /\ user = None THEN lastSave ELSE "ok"
        /\ cmd' = Command("link", author, args, found, FALSE, 0, << <<osu_username, mode>> >>, << >>,
                          <<IF user = None THEN "not_found" ELSE "linked">>, 0, None)
        /\ UNCHANGED <<call, paginatorVars, inflight, sessions>>

\* unlink_account(ctx)
unlink_account(author) ==
    LET had  == str(author) \in DOMAIN links
        args == [username |-> Omitted, mode |-> Omitted, limit |-> 0]
    IN  /\ pc = "waiting"
        /\ pc' = "handled"
        /\ links' = IF had THEN del_entry(links, str(author)) ELSE links
        /\ file' = IF had THEN save_links(del_entry(links, str(author)), file, "ok").file ELSE file
        /\ lastSave' = IF had THEN "ok" ELSE lastSave
        /\ cmd' = Command("unlink", author, args, FALSE, FALSE, 0, << >>, << >>,
                          <<IF had THEN "unlinked" ELSE "not_linked">>, 0, None)
        /\ UNCHANGED <<call, paginatorVars, inflight, sessions>>

profile ==
    /\ pc = "waiting"
    /\ pc' = "handled"
    /\ \E author \in UserIds, args \in Arguments(0), found \in BOOLEAN :
          cmd' = profile_command(author, args, found)
    /\ UNCHANGED <<linkVars, paginatorVars, inflight, sessions>>

recent ==
    /\ pc = "waiting"
    /\ pc' = "handled"
    /\ \E author \in UserIds, args \in Arguments(RecentDefault), found \in BOOLEAN,
          answered \in BOOLEAN, available \in 0..MaxAvailable :
          cmd' = recent_command(author, args, found, answered, available)
    /\ UNCHANGED <<linkVars, paginatorVars, inflight, sessions>>

top ==
    /\ pc = "waiting"
    /\ pc' = "handled"
    /\ \E author \in UserIds, args \in Arguments(TopDefault), found \in BOOLEAN,
          answered \in BOOLEAN, available \in 0..MaxAvailable :
          cmd' = top_command(author, args, found, answered, available)
    /\ UNCHANGED <<linkVars, paginatorVars, inflight, sessions>>

\* The handler has returned; the bot waits for the next command.
next_command ==
    /\ pc = "handled"
    /\ pc' = "waiting"
    /\ cmd' = NoCmd
    /\ UNCHANGED <<linkVars, paginatorVars, inflight, sessions>>

NextBot ==
    \/ \E author \in UserIds, h \in TypedHandles, m \in {Omitted} \cup TypedModes, found \in BOOLEAN :
          link_account(author, h, m, found)
    \/ \E author \in UserIds : unlink_account(author)
    \/ profile
    \/ recent
    \/ top
    \/ next_command

SpecBot == InitBot /\ [][NextBot]_vars

-----------------------------------------------------------------------------
\* C11: the limit is clamped, not rejected: recent fetches with a limit of at
\* most 5 and top with a limit of at most 100, a limit at or below the cap is
\* fetched as given, and recent with limit 50 fetches with limit 5 and sends
\* min(5, available scores) score cards.
C11_LimitIsClamped ==
    /\ cmd.name \in {"recent", "top"} =>
          \A i \in 1..Len(cmd.fetches) :
              LET cap == IF cmd.name = "recent" THEN RecentCap ELSE TopCap
              IN  /\ cmd.fetches[i].limit <= cap
                  /\ cmd.limit <= cap => cmd.fetches[i].limit = cmd.limit
    /\ (cmd.name = "recent" /\ cmd.limit = 50 /\ cmd.found) =>
          /\ Len(cmd.fetches) = 1
          /\ cmd.fetches[1].limit = 5
          /\ cmd.answered => cmd.cards = Min(5, cmd.available)

C11_Witness ==
    /\ cmd.name = "recent" /\ cmd.limit = 50 /\ cmd.found /\ cmd.answered
    /\ cmd.available = MaxAvailable
    /\ cmd.fetches = <<[kind |-> "recent", mode |-> "mania", limit |-> 5]>>
    /\ cmd.cards = 5

\* C12: no paginator is built over an empty score sequence: when the
\* best-scores fetch of top returns no scores (a failed fetch included) the
\* command replies with the no-scores message and creates no session.
C12_NoEmptyPaginator ==
    cmd.name = "top" =>
        /\ cmd.view # None => Len(cmd.view.scores) >= 1
        /\ (Len(cmd.fetches) = 1 /\ (~cmd.answered \/ cmd.available = 0)) =>
              /\ cmd.view = None
              /\ cmd.replies = <<"fetching", "no_scores">>

C12_Witness ==
    /\ cmd.name = "top" /\ cmd.found /\ ~cmd.answered /\ cmd.available > 0
    /\ Len(cmd.fetches) = 1
    /\ cmd.view = None

\* C13 (as the specification states it): a mode outside the four values is an
\* invalid argument for link, profile, recent and top, so such a command
\* performs no fetch and no stored record carries such a mode.
C13_ModeIsClosedSet ==
    /\ \A k \in DOMAIN links : links[k].mode \in Modes
    /\ (cmd.name \in {"link", "profile", "recent", "top"} /\ cmd.mode \notin Modes \cup {Omitted}) =>
          cmd.users = << >> /\ cmd.fetches = << >>

\* C18: without an explicit handle, profile, recent and top fetch with
\* exactly the handle and mode of the author's stored record, and make no
\* other request; an author without a record gets the prompt, no request is
\* made and no session is created.
C18_LinkedAccountIsUsed ==
    (cmd.name \in {"profile", "recent", "top"} /\ cmd.username = Omitted) =>
        LET linked == get_linked_user(links, cmd.author)
        IN  IF linked # None
            THEN /\ cmd.users = << <<linked.osu_username, linked.mode>> >>
                 /\ \A i \in 1..Len(cmd.fetches) : cmd.fetches[i].mode = linked.mode
                 /\ cmd.view # None => cmd.view.mode = linked.mode
            ELSE /\ cmd.replies = <<"prompt">>
                 /\ cmd.users = << >> /\ cmd.fetches = << >>
                 /\ cmd.view = None

C18_Witness ==
    /\ cmd.name = "top" /\ cmd.username = Omitted
    /\ get_linked_user(links, cmd.author) = [osu_username |-> "cookiezi", mode |-> "mania"]
    /\ cmd.users = << <<"cookiezi", "mania">> >>
    /\ cmd.view # None

\* C20: a link command whose profile fetch fails leaves every record and the
\* file as they were and replies that the user was not found.
C20_FailedLinkChangesNothing ==
    [][(cmd'.name = "link" /\ ~cmd'.found) =>
          /\ links' = links
          /\ file' = file
          /\ cmd'.replies = <<"not_found">>]_vars

C20_Witness ==
    /\ cmd.name = "link" /\ ~cmd.found
    /\ str(cmd.author) \in DOMAIN links
    /\ Cardinality(DOMAIN links) = MaxUsers
    /\ file = Written(links)

-----------------------------------------------------------------------------
\* C14 (as the specification states it): once the view has timed out or its
\* message was dismissed, a navigation changes neither current_page nor the
\* page the message displays.
C14_ExpiredIgnoresNavigation ==
    [][(finished \/ ~message.exists) =>
          (view'.current_page = view.current_page /\ message'.embed = message.embed)]_vars

====
